---- MODULE Spec2Model ----
(***************************************************************************)
(* Viewport-breakpoint tracker of the responsive demo: BreakpointManager   *)
(* (breakpoint detection, listener registries, debounced recomputation,    *)
(* teardown), ResponsiveNav (hamburger menu state machine), DeviceDetector,*)
(* UIUpdater (text elements and change log) and the ResponsiveApp          *)
(* coordinator that wires them.                                            *)
(*                                                                         *)
(* The browser is modelled as a single-threaded event loop: every action   *)
(* is one event handler (or one public method call) run to completion.     *)
(* Timers created by setTimeout carry their remaining time in              *)
(* milliseconds; time advances in steps of Quantum and a timer whose time  *)
(* is up fires before time advances further.                               *)
(***************************************************************************)
EXTENDS Integers, Sequences, FiniteSets

\* ------------------------------------------------------------------ bounds
\* widest viewport of the width sweep (SpecFn)
MaxWidth == 2000
\* most listeners held by the registries of one manager at a time
MaxRegistrations == 3
\* most calls of addLogEntry in one behaviour (SpecLog)
MaxInsertions == 12
\* most calls of the probed debounce wrapper in one behaviour (SpecDebounce)
MaxTriggers == 5
\* most breakpoint changes the coordinator handles in one behaviour (SpecApp)
MaxChanges == 1
\* most orientationchange refreshes pending at a time (SpecApp)
MaxRotations == 1

\* -------------------------------------------------------- program constants
\* BreakpointManager.init: this.debounce(..., 100)
BMDebounceWait == 100
\* ResponsiveNav.init: this.debounce(..., 250)
NavDebounceWait == 250
\* ResponsiveApp.constructor: this.debounce(..., 250) on window resize
AppDebounceWait == 250
\* ResponsiveApp.constructor: setTimeout(..., 100) on orientationchange
OrientationWait == 100
\* ResponsiveNav.mobileBreakpoint
mobileBreakpoint == 768

\* UIUpdater.addLogEntry: most <li> children kept in #breakpoint-log
LogCapacity == 10
\* DeviceDetector: widths below it are 'mobile'
DeviceMobileLimit == 768
\* DeviceDetector: widths below it that are not 'mobile' are 'tablet'
DeviceTabletLimit == 1024

\* -------------------------------------------------------------- the inputs
\* viewport widths of the event-driven specifications: the first width of the
\* bands xs, sm, md and lg, and the last width of sm
Widths == {0, 576, 767, 768, 1024}
Heights == {600}
\* viewport heights of the width sweep
FnHeights == {768}
\* listeners the environment registers: a plain one and one that calls
\* destroy() on the manager when it is invoked
Callbacks == {"cbA", "cbDestroy"}
\* breakpoint names the environment passes to onEnter and to onExit
EnterNames == {"md"}
ExitNames == {"sm"}
\* what the browser reports of the device: 'ontouchstart' in window,
\* navigator.maxTouchPoints, navigator.msMaxTouchPoints and
\* window.devicePixelRatio (0 stands for undefined)
Devices == [ontouchstart : BOOLEAN, maxTouchPoints : {0, 5}, msMaxTouchPoints : {0, 1},
            devicePixelRatio : {0, 1, 2}]
\* the (oldBreakpoint, newBreakpoint) pairs addLogEntry is called with
LogPairs == {<<"sm", "md">>, <<"md", "sm">>}
\* viewports of the coordinator's specification: the first width of every
\* band of the table, and a second width of the last band
AppWidths == {0, 576, 768, 1024, 1280, 1536, 1600}
AppHeights == {800}
\* a mouse-only device and a touch device
MouseDevice == [ontouchstart |-> FALSE, maxTouchPoints |-> 0, msMaxTouchPoints |-> 0,
                devicePixelRatio |-> 1]
TouchDevice == [ontouchstart |-> TRUE, maxTouchPoints |-> 5, msMaxTouchPoints |-> 0,
                devicePixelRatio |-> 2]
\* the devices the coordinator's page runs on
AppDevices == {TouchDevice}
\* the arguments the probed debounce wrapper is called with
ProbeArgs == {"a", "b"}
\* names passed to is / isUp / isDown that are not keys of the table
UnknownNames == {"foo", "mobile"}

\* ------------------------------------------------------ breakpoint table
\* Object.keys(this.breakpoints) / Object.entries order: insertion order
BreakpointNames == <<"xs", "sm", "md", "lg", "xl", "xxl">>
breakpoints == [xs |-> 0, sm |-> 576, md |-> 768, lg |-> 1024, xl |-> 1280, xxl |-> 1536]
NameSet == {BreakpointNames[i] : i \in 1..Len(BreakpointNames)}

\* the forEach of getCurrentBreakpoint from entry i on, `current` being the
\* running best match
RECURSIVE ForEachEntry(_, _, _)
ForEachEntry(i, w, current) ==
    IF i > Len(BreakpointNames) THEN current
    ELSE ForEachEntry(i + 1, w,
            IF w >= breakpoints[BreakpointNames[i]] THEN BreakpointNames[i] ELSE current)

\* getCurrentBreakpoint with `width > minWidth` for `width >= minWidth`
getCurrentBreakpointStrict(w) ==
    LET RECURSIVE Go(_, _)
        Go(i, current) ==
            IF i > Len(BreakpointNames) THEN current
            ELSE Go(i + 1, IF w > breakpoints[BreakpointNames[i]]
                           THEN BreakpointNames[i] ELSE current)
    IN Go(1, "xs")

\* getCurrentBreakpoint with `width <= minWidth` for `width >= minWidth`
getCurrentBreakpointReversed(w) ==
    LET RECURSIVE Go(_, _)
        Go(i, current) ==
            IF i > Len(BreakpointNames) THEN current
            ELSE Go(i + 1, IF w <= breakpoints[BreakpointNames[i]]
                           THEN BreakpointNames[i] ELSE current)
    IN Go(1, "xs")

getCurrentBreakpoint(w) == ForEachEntry(1, w, "xs")

\* Array.prototype.indexOf on Object.keys(this.breakpoints): 0-based, -1 when absent
indexOf(name) ==
    IF name \in NameSet
    THEN (CHOOSE i \in 1..Len(BreakpointNames) : BreakpointNames[i] = name) - 1
    ELSE 0 - 1

\* isUp with `>` for `>=`
isUpStrict(current, breakpoint) == indexOf(current) > indexOf(breakpoint)

isUp(current, breakpoint) == indexOf(current) >= indexOf(breakpoint)

isDown(current, breakpoint) == indexOf(current) <= indexOf(breakpoint)

is(current, breakpoint) == current = breakpoint

\* ------------------------------------------------------------------ timers
\* a setTimeout handle held by a debounce closure: armed with `left` ms to go
\* and the `args` its callback will pass on
\* `others`: the invocations the wrapper scheduled earlier that are still in
\* the browser's timer table though `timeout` no longer refers to them,
\* oldest first, each with its ms left and its args
NoTimer == [armed |-> FALSE, left |-> 0, args |-> <<>>, others |-> <<>>]
Armed(wait) == [armed |-> TRUE, left |-> wait, args |-> <<>>, others |-> <<>>]
\* the invocations of the wrapped callback that are scheduled and not yet run
Pending(t) == (IF t.armed THEN 1 ELSE 0) + Len(t.others)
\* one of them has reached its deadline
Due(t) == (t.armed /\ t.left = 0) \/ \E i \in DOMAIN t.others : t.others[i].left = 0
\* clearTimeout(timeout): the invocation `timeout` refers to is cancelled
clearTimeout(t) == [t EXCEPT !.armed = FALSE, !.left = 0, !.args = <<>>]
\* timeout = setTimeout(() => func(...args), wait): `timeout` refers to the
\* new invocation; the one it referred to stays scheduled unless it was
\* cleared or has run
setTimeout(t, wait, args) ==
    [Armed(wait) EXCEPT !.args = args,
                        !.others = IF t.armed
                                   THEN Append(t.others, [left |-> t.left, args |-> t.args])
                                   ELSE t.others]
\* the oldest due invocation among the earlier ones, 0 if none is due
FirstDue(t) ==
    IF \E i \in DOMAIN t.others : t.others[i].left = 0
    THEN CHOOSE k \in DOMAIN t.others :
             t.others[k].left = 0 /\ \A j \in 1..(k - 1) : t.others[j].left # 0
    ELSE 0
\* the args the oldest due invocation passes to func
FiredArgs(t) == IF FirstDue(t) # 0 THEN t.others[FirstDue(t)].args ELSE t.args
\* the oldest due invocation has run
Fired(t) ==
    IF FirstDue(t) # 0
    THEN [t EXCEPT !.others = SubSeq(@, 1, FirstDue(t) - 1) \o SubSeq(@, FirstDue(t) + 1, Len(@))]
    ELSE clearTimeout(t)

RECURSIVE Gcd(_, _)
Gcd(a, b) == IF b = 0 THEN a ELSE Gcd(b, a % b)
\* the step of the clock: every timer deadline is a multiple of it
Quantum == Gcd(NavDebounceWait, BMDebounceWait)

\* ------------------------------------------------------------------- state
VARIABLES
    width, height,          \* window.innerWidth, window.innerHeight
    currentBreakpoint,      \* BreakpointManager.currentBreakpoint
    previousBreakpoint,     \* BreakpointManager.previousBreakpoint ("null" = null)
    resizeObserver,         \* "observing" | "disconnected"
    callbacks,              \* BreakpointManager.callbacks {change, enter, exit}
    bmTimeout,              \* `timeout` of the manager's debounce closure
    dom,                    \* which of .nav, .nav-toggle, .nav-menu the page holds
    isOpen, isMobile,       \* ResponsiveNav.isOpen, ResponsiveNav.isMobile
    menuIsOpen,             \* menu.classList has 'is-open'
    toggleIsActive,         \* toggle.classList has 'is-active'
    ariaExpanded,           \* toggle's aria-expanded attribute
    bodyOverflow,           \* document.body.style.overflow
    focus,                  \* the element holding keyboard focus
    wasOpen,                \* history: isOpen when the nav's last handler started
    navTimeout,             \* `timeout` of the nav's debounce closure
    breakpointLog,          \* UIUpdater.breakpointLogEl: whether it exists, and its child nodes
    inserted,               \* history: calls of addLogEntry so far (the clock its timestamp reads)
    app,                    \* whether the page runs `new ResponsiveApp()` (else it constructs
                            \* the manager and the nav on its own)
    appTimeout,             \* `timeout` of the coordinator's debounce closure
    orientationTimeout,     \* the setTimeout calls of the orientationchange listener
    display,                \* UIUpdater's six text elements: which exist, and their textContent
    device,                 \* what the browser reports of the device
    changes,                \* history: breakpoint changes detected while the coordinator runs
    probe,                  \* a wrapper made by debounce(func, 100) around a func that records its
                            \* arguments: its `timeout`, what func ran with, and the history of its calls
    ret,                    \* the last public query and what it returned
    event,                  \* history: the DOM event or timer whose handler ran in the last step ("none": no handler ran)
    calls,                  \* history: listener invocations and custom events of that handler, in order
    checkedWidth,           \* history: the width currentBreakpoint was computed from
    destroyed,              \* history: destroy() has returned
    dropped                 \* history: destroy() discarded at least one listener

bmVars == <<currentBreakpoint, previousBreakpoint, resizeObserver, callbacks,
            checkedWidth, destroyed, dropped>>
navVars == <<isOpen, isMobile, menuIsOpen, toggleIsActive, ariaExpanded, bodyOverflow, focus,
             wasOpen>>
uiVars == <<breakpointLog, inserted>>
appVars == <<app, appTimeout, orientationTimeout, display, device, changes>>
vars == <<width, height, bmVars, bmTimeout, dom, navVars, navTimeout, uiVars, appVars, probe, ret,
          event, calls>>

\* ------------------------------------------------------ BreakpointManager
\* a registry `enter` / `exit` is an object keyed by breakpoint name, modelled
\* as a function over every key that is ever read or written; the empty list
\* stands for an absent key (undefined), both skip the forEach
RegistryKeys == NameSet \cup EnterNames \cup ExitNames
EmptyRegistry == [name \in RegistryKeys |-> <<>>]
EmptyCallbacks == [change |-> <<>>, enter |-> EmptyRegistry, exit |-> EmptyRegistry]

RECURSIVE Total(_, _)
Total(registry, names) ==
    IF names = {} THEN 0
    ELSE LET name == CHOOSE n \in names : TRUE
         IN Len(registry[name]) + Total(registry, names \ {name})
\* the listeners held: those of the change registry and of the keys that
\* onEnter and onExit are called with
Registered(cbs) ==
    Len(cbs.change) + Total(cbs.enter, EnterNames) + Total(cbs.exit, ExitNames)

\* the manager as one record, threaded through a handler
Manager == [currentBreakpoint |-> currentBreakpoint,
            previousBreakpoint |-> previousBreakpoint,
            resizeObserver |-> resizeObserver,
            callbacks |-> callbacks,
            checkedWidth |-> checkedWidth,
            destroyed |-> destroyed,
            dropped |-> dropped,
            calls |-> <<>>]

\* destroy() that returns before doing anything
destroyNothing(m) == [m EXCEPT !.destroyed = TRUE]

\* destroy(): disconnect the observer, replace the registries by empty ones
destroy(m) ==
    [m EXCEPT !.resizeObserver = "disconnected",
              !.callbacks = EmptyCallbacks,
              !.destroyed = TRUE,
              !.dropped = @ \/ Registered(m.callbacks) > 0]

\* handleBreakpointChange: the console.log of its if / else if
Classification(newBreakpoint) ==
    IF newBreakpoint = "lg" \/ newBreakpoint = "xl" THEN <<"Desktop view">>
    ELSE IF newBreakpoint = "xs" \/ newBreakpoint = "sm" THEN <<"Mobile view">>
    ELSE <<>>

\* handleBreakpointChange: everything it writes to the console, in order
Console(m, data) ==
    [i \in 1..(1 + Len(Classification(data.newBreakpoint))) |->
        [kind |-> "console",
         name |-> IF i = 1 THEN "Breakpoint changed" ELSE Classification(data.newBreakpoint)[1],
         callback |-> "cbApp",
         args |-> IF i = 1 THEN <<data>> ELSE <<>>,
         late |-> m.destroyed]]

\* one listener invocation; `late` records whether destroy() had returned.
\* "cbDestroy" calls destroy(); "cbApp" is the coordinator's listener, whose
\* console output is recorded here and whose UI writes are made by the
\* action from the invocation recorded
Invoke(m, kind, name, callback, args) ==
    LET called == [m EXCEPT !.calls = Append(@,
                        [kind |-> kind, name |-> name, callback |-> callback,
                         args |-> args, late |-> m.destroyed])]
    IN IF callback = "cbDestroy" THEN destroy(called)
       ELSE IF callback = "cbApp" THEN [called EXCEPT !.calls = @ \o Console(m, args[1])]
       ELSE called

\* a forEach that invokes a listener registered more than once only once
RECURSIVE ForEachOnce(_, _, _, _, _)
ForEachOnce(list, m, kind, name, args) ==
    IF list = <<>> THEN m
    ELSE ForEachOnce(SelectSeq(Tail(list), LAMBDA cb : cb # Head(list)),
                     Invoke(m, kind, name, Head(list), args), kind, name, args)

\* list.forEach(cb => cb(...args)): iterates the array it was called on, also
\* when a listener replaces this.callbacks meanwhile
RECURSIVE ForEach(_, _, _, _, _)
ForEach(list, m, kind, name, args) ==
    IF list = <<>> THEN m
    ELSE ForEach(Tail(list), Invoke(m, kind, name, Head(list), args), kind, name, args)

\* window.dispatchEvent(new CustomEvent('breakpointChange', { detail }))
DispatchEvent(m, detail) ==
    [m EXCEPT !.calls = Append(@,
        [kind |-> "event", name |-> "breakpointChange", callback |-> "window",
         args |-> <<detail>>, late |-> m.destroyed])]

\* the detail record with old and new exchanged
DetailSwapped(m, w, h) ==
    [oldBreakpoint |-> m.currentBreakpoint, newBreakpoint |-> m.previousBreakpoint,
     width |-> w, height |-> h]

Detail(m, w, h) ==
    [oldBreakpoint |-> m.previousBreakpoint, newBreakpoint |-> m.currentBreakpoint,
     width |-> w, height |-> h]

\* the dispatch with the enter listeners run before the exit listeners
NotifyEnterFirst(m, detail) ==
    LET m2 == ForEach(m.callbacks.change, m, "change", "", <<detail>>)
        m3 == ForEach(m2.callbacks.enter[m2.currentBreakpoint], m2,
                      "enter", m2.currentBreakpoint, <<>>)
        m4 == IF m3.previousBreakpoint # "null"
              THEN ForEach(m3.callbacks.exit[m3.previousBreakpoint], m3,
                           "exit", m3.previousBreakpoint, <<>>)
              ELSE m3
    IN DispatchEvent(m4, detail)

\* the dispatch of one detected transition: change, exit, enter, custom event
\* the dispatch with the event dispatched before the listeners run
NotifyEventFirst(m, detail) ==
    LET m1 == DispatchEvent(m, detail)
        m2 == ForEach(m1.callbacks.change, m1, "change", "", <<detail>>)
        m3 == IF m2.previousBreakpoint # "null"
              THEN ForEach(m2.callbacks.exit[m2.previousBreakpoint], m2,
                           "exit", m2.previousBreakpoint, <<>>)
              ELSE m2
    IN ForEach(m3.callbacks.enter[m3.currentBreakpoint], m3,
               "enter", m3.currentBreakpoint, <<>>)

\* the dispatch that also runs the exit and enter listeners of every band the
\* width passed through
RECURSIVE ForEachBand(_, _, _, _)
ForEachBand(i, names, m, kind) ==
    IF i > Len(BreakpointNames) THEN m
    ELSE LET name == BreakpointNames[i]
             list == IF kind = "exit" THEN m.callbacks.exit[name]
                     ELSE m.callbacks.enter[name]
         IN ForEachBand(i + 1, names,
                        IF name \in names THEN ForEach(list, m, kind, name, <<>>) ELSE m,
                        kind)
NotifyEveryBandCrossed(m, detail) ==
    LET old == indexOf(detail.oldBreakpoint)
        new == indexOf(detail.newBreakpoint)
        crossed == {name \in NameSet :
                       \/ old <= indexOf(name) /\ indexOf(name) <= new
                       \/ new <= indexOf(name) /\ indexOf(name) <= old}
        m2 == ForEach(m.callbacks.change, m, "change", "", <<detail>>)
        m3 == ForEachBand(1, crossed \ {detail.newBreakpoint}, m2, "exit")
        m4 == ForEachBand(1, crossed \ {detail.oldBreakpoint}, m3, "enter")
    IN DispatchEvent(m4, detail)

Notify(m, detail) ==
    LET m2 == ForEach(m.callbacks.change, m, "change", "", <<detail>>)
        m3 == IF m2.previousBreakpoint # "null"
              THEN ForEach(m2.callbacks.exit[m2.previousBreakpoint], m2,
                           "exit", m2.previousBreakpoint, <<>>)
              ELSE m2
        m4 == ForEach(m3.callbacks.enter[m3.currentBreakpoint], m3,
                      "enter", m3.currentBreakpoint, <<>>)
    IN DispatchEvent(m4, detail)

\* checkBreakpointChange without the `newBreakpoint !== currentBreakpoint` test
checkBreakpointChangeAlways(m, w, h) ==
    LET m1 == [m EXCEPT !.previousBreakpoint = m.currentBreakpoint,
                        !.currentBreakpoint = getCurrentBreakpoint(w),
                        !.checkedWidth = w]
    IN Notify(m1, Detail(m1, w, h))

\* checkBreakpointChange with its two assignments in the other order
checkBreakpointChangeCurrentFirst(m, w, h) ==
    LET newBreakpoint == getCurrentBreakpoint(w)
    IN IF newBreakpoint # m.currentBreakpoint
       THEN LET m1 == [m EXCEPT !.currentBreakpoint = newBreakpoint,
                                !.previousBreakpoint = newBreakpoint,
                                !.checkedWidth = w]
            IN Notify(m1, Detail(m1, w, h))
       ELSE [m EXCEPT !.checkedWidth = w]

\* checkBreakpointChange that does not store the new breakpoint
checkBreakpointChangeKeepCurrent(m, w, h) ==
    LET newBreakpoint == getCurrentBreakpoint(w)
    IN IF newBreakpoint # m.currentBreakpoint
       THEN LET m1 == [m EXCEPT !.previousBreakpoint = m.currentBreakpoint,
                                !.checkedWidth = w]
            IN Notify(m1, Detail(m1, w, h))
       ELSE [m EXCEPT !.checkedWidth = w]

checkBreakpointChange(m, w, h) ==
    LET newBreakpoint == getCurrentBreakpoint(w)
    IN IF newBreakpoint # m.currentBreakpoint
       THEN LET m1 == [m EXCEPT !.previousBreakpoint = m.currentBreakpoint,
                                !.currentBreakpoint = newBreakpoint,
                                !.checkedWidth = w]
            IN Notify(m1, Detail(m1, w, h))
       ELSE [m EXCEPT !.checkedWidth = w]

onChange(m, callback) ==
    [m EXCEPT !.callbacks.change = Append(@, callback)]
onEnter(m, breakpoint, callback) ==
    [m EXCEPT !.callbacks.enter[breakpoint] = Append(@, callback)]
onExit(m, breakpoint, callback) ==
    [m EXCEPT !.callbacks.exit[breakpoint] = Append(@, callback)]

\* store a manager record back into the variables
SetManager(m) ==
    /\ currentBreakpoint' = m.currentBreakpoint
    /\ previousBreakpoint' = m.previousBreakpoint
    /\ resizeObserver' = m.resizeObserver
    /\ callbacks' = m.callbacks
    /\ checkedWidth' = m.checkedWidth
    /\ destroyed' = m.destroyed
    /\ dropped' = m.dropped
    /\ calls' = m.calls

\* ---------------------------------------------------------- ResponsiveNav
\* a constructor that goes on to init() as soon as .nav exists
NavReadyContainerOnly == dom.nav

\* the constructor reached init(): .nav, .nav-toggle and .nav-menu all exist
NavReady == dom.nav /\ dom.toggle /\ dom.menu

Nav == [isOpen |-> isOpen, isMobile |-> isMobile, menuIsOpen |-> menuIsOpen,
        toggleIsActive |-> toggleIsActive, ariaExpanded |-> ariaExpanded,
        bodyOverflow |-> bodyOverflow, focus |-> focus]

\* openMenu that locks the scroll whatever the mode
openMenuAlwaysLock(n) ==
    [n EXCEPT !.menuIsOpen = TRUE, !.toggleIsActive = TRUE, !.ariaExpanded = "true",
              !.isOpen = TRUE, !.bodyOverflow = "hidden"]

\* openMenu that leaves aria-expanded as it is
openMenuNoAria(n) ==
    [n EXCEPT !.menuIsOpen = TRUE, !.toggleIsActive = TRUE, !.isOpen = TRUE,
              !.bodyOverflow = IF n.isMobile THEN "hidden" ELSE @]

openMenu(n) ==
    [n EXCEPT !.menuIsOpen = TRUE, !.toggleIsActive = TRUE, !.ariaExpanded = "true",
              !.isOpen = TRUE,
              !.bodyOverflow = IF n.isMobile THEN "hidden" ELSE @]

\* closeMenu that leaves the scroll as it is
closeMenuKeepLock(n) ==
    [n EXCEPT !.menuIsOpen = FALSE, !.toggleIsActive = FALSE, !.ariaExpanded = "false",
              !.isOpen = FALSE]

closeMenu(n) ==
    [n EXCEPT !.menuIsOpen = FALSE, !.toggleIsActive = FALSE, !.ariaExpanded = "false",
              !.isOpen = FALSE, !.bodyOverflow = ""]

\* toggleMenu that only ever opens
toggleMenuOpenOnly(n) == openMenu(n)

toggleMenu(n) == IF n.isOpen THEN closeMenu(n) ELSE openMenu(n)

\* checkViewport whose threshold test is inclusive
checkViewportInclusive(n, w) ==
    LET wasMobile == n.isMobile
        n1 == [n EXCEPT !.isMobile = w <= mobileBreakpoint]
    IN IF wasMobile /\ ~n1.isMobile /\ n1.isOpen THEN closeMenu(n1) ELSE n1

\* checkViewport that only recomputes the flag
checkViewportFlagOnly(n, w) == [n EXCEPT !.isMobile = w < mobileBreakpoint]

\* checkViewport that closes on the flip into mobile mode instead
checkViewportCloseOnEnter(n, w) ==
    LET wasMobile == n.isMobile
        n1 == [n EXCEPT !.isMobile = w < mobileBreakpoint]
    IN IF ~wasMobile /\ n1.isMobile /\ n1.isOpen THEN closeMenu(n1) ELSE n1

checkViewport(n, w) ==
    LET wasMobile == n.isMobile
        n1 == [n EXCEPT !.isMobile = w < mobileBreakpoint]
    IN IF wasMobile /\ ~n1.isMobile /\ n1.isOpen THEN closeMenu(n1) ELSE n1

\* click listener of the toggle: e.stopPropagation(), then toggleMenu();
\* `propagate` tells whether the click goes on to the document's listener
onToggleClick(n) == [nav |-> toggleMenu(n), propagate |-> FALSE]

\* a container that contains no click target
NavContainsNothing(target) == FALSE

\* this.nav.contains(e.target): every target but one outside the container
NavContains(target) == target # "outside"

\* document click listener: close when open and the target is outside .nav
onDocumentClick(n, target) ==
    IF n.isOpen /\ ~NavContains(target) THEN closeMenu(n) ELSE n

\* keydown listener that does not look at isOpen
onKeydownAnyState(n, key) ==
    IF key = "Escape" THEN [closeMenu(n) EXCEPT !.focus = "toggle"] ELSE n

\* document keydown listener
onKeydown(n, key) ==
    IF key = "Escape" /\ n.isOpen
    THEN [closeMenu(n) EXCEPT !.focus = "toggle"]
    ELSE n

\* link listener that does not look at isMobile
onLinkClickAnyMode(n) ==
    IF n.isOpen THEN closeMenu(n) ELSE n

\* click listener of each link of the menu
onLinkClick(n) ==
    IF n.isMobile /\ n.isOpen THEN closeMenu(n) ELSE n

SetNav(n) ==
    /\ isOpen' = n.isOpen
    /\ isMobile' = n.isMobile
    /\ menuIsOpen' = n.menuIsOpen
    /\ toggleIsActive' = n.toggleIsActive
    /\ ariaExpanded' = n.ariaExpanded
    /\ bodyOverflow' = n.bodyOverflow
    /\ focus' = n.focus
    /\ wasOpen' = isOpen

\* ------------------------------------------------------- DeviceDetector
\* type with the cut-offs taken inclusively
getDeviceTypeInclusive(w) ==
    IF w <= DeviceMobileLimit THEN "mobile"
    ELSE IF w <= DeviceTabletLimit THEN "tablet"
    ELSE "desktop"

\* the `type` computed by getDeviceInfo() from window.innerWidth
getDeviceType(w) ==
    IF w < DeviceMobileLimit THEN "mobile"
    ELSE IF w < DeviceTabletLimit THEN "tablet"
    ELSE "desktop"

\* getOrientation with `>=` for `>`
getOrientationTieToPortrait(w, h) == IF h >= w THEN "portrait" ELSE "landscape"

\* window.innerHeight > window.innerWidth ? 'portrait' : 'landscape'
getOrientation(w, h) == IF h > w THEN "portrait" ELSE "landscape"

isTouchDevice(dev) ==
    dev.ontouchstart \/ dev.maxTouchPoints > 0 \/ dev.msMaxTouchPoints > 0

getDeviceInfo(w, h, dev) ==
    [type |-> getDeviceType(w),
     orientation |-> getOrientation(w, h),
     isTouch |-> isTouchDevice(dev),
     pixelRatio |-> IF dev.devicePixelRatio = 0 THEN 1 ELSE dev.devicePixelRatio]

DeviceDetector_isMobile(w) == w < DeviceMobileLimit
DeviceDetector_isTablet(w) == w >= DeviceMobileLimit /\ w < DeviceTabletLimit
DeviceDetector_isDesktop(w) == w >= DeviceTabletLimit

\* ------------------------------------------------------------ UIUpdater
ElementIds == {"current-breakpoint", "viewport-dimensions", "device-type", "orientation",
               "viewport-size", "touch-device"}
\* the text elements as a page may hold them: all of them, or none
\* (no text yet: the empty string, and the empty sequence where the text is
\* put together from numbers)
NoText == [id \in ElementIds |->
              IF id \in {"viewport-dimensions", "viewport-size"} THEN <<>> ELSE ""]
NoDisplay == [els |-> {}, text |-> NoText]
FullDisplay == [els |-> ElementIds, text |-> NoText]

\* el.textContent = text, skipped when the element is missing
SetText(d, id, text) == IF id \in d.els THEN [d EXCEPT !.text[id] = text] ELSE d

\* str.charAt(0).toUpperCase() + str.slice(1) on the words it is called with
capitalize(str) ==
    CASE str = "mobile" -> "Mobile" [] str = "tablet" -> "Tablet" [] str = "desktop" -> "Desktop"
      [] str = "portrait" -> "Portrait" [] str = "landscape" -> "Landscape"

\* String.prototype.toUpperCase on a breakpoint name
toUpperCase(name) ==
    CASE name = "xs" -> "XS" [] name = "sm" -> "SM" [] name = "md" -> "MD"
      [] name = "lg" -> "LG" [] name = "xl" -> "XL" [] name = "xxl" -> "XXL"

\* the <li> created by addLogEntry: `${timestamp} - Changed from ${OLD} to ${NEW}`
LogEntry(timestamp, oldBreakpoint, newBreakpoint) ==
    [kind |-> "li", timestamp |-> timestamp,
     from |-> toUpperCase(oldBreakpoint), to |-> toUpperCase(newBreakpoint)]
\* a whitespace text node between the tags of the list
TextNode == [kind |-> "text"]

updateBreakpoint(d, breakpoint) == SetText(d, "current-breakpoint", toUpperCase(breakpoint))

\* `${width}x${height}` with a multiplication sign, and the same with spaces
updateViewportDimensions(d, w, h) ==
    SetText(SetText(d, "viewport-dimensions", <<w, "x", h>>), "viewport-size", <<w, " x ", h>>)

updateDeviceInfo(d, info) ==
    SetText(SetText(SetText(d, "device-type", capitalize(info.type)),
                    "orientation", capitalize(info.orientation)),
            "touch-device", IF info.isTouch THEN "Yes" ELSE "No")

\* element.children: the child nodes that are elements
children(childNodes) == SelectSeq(childNodes, LAMBDA node : node.kind = "li")

\* removal from the front of the list
RECURSIVE RemoveFirstWhileOver(_)
RemoveFirstWhileOver(childNodes) ==
    IF Len(children(childNodes)) > LogCapacity
    THEN RemoveFirstWhileOver(Tail(childNodes))
    ELSE childNodes

\* while (children.length > 10) removeChild(lastChild)
RECURSIVE RemoveLastWhileOver(_)
RemoveLastWhileOver(childNodes) ==
    IF Len(children(childNodes)) > LogCapacity
    THEN RemoveLastWhileOver(SubSeq(childNodes, 1, Len(childNodes) - 1))
    ELSE childNodes

addLogEntry(log, timestamp, oldBreakpoint, newBreakpoint) ==
    IF ~log.el THEN log
    ELSE [log EXCEPT !.childNodes =
            RemoveLastWhileOver(<<LogEntry(timestamp, oldBreakpoint, newBreakpoint)>> \o @)]

\* ---------------------------------------------------------- ResponsiveApp
\* BreakpointManager.getViewport
getViewport(w, h) == [width |-> w, height |-> h]

\* updateUI that leaves the viewport dimensions as they are displayed
updateUIWithoutViewport(d, breakpoint, w, h, dev) ==
    updateDeviceInfo(updateBreakpoint(d, breakpoint), getDeviceInfo(w, h, dev))

\* updateUI: the manager's current breakpoint, the live viewport and device
updateUI(d, breakpoint, w, h, dev) ==
    LET viewport == getViewport(w, h)
        deviceInfo == getDeviceInfo(w, h, dev)
    IN updateDeviceInfo(
           updateViewportDimensions(updateBreakpoint(d, breakpoint),
                                    viewport.width, viewport.height),
           deviceInfo)

\* the UI the coordinator writes, as one record threaded through a handler
UI == [display |-> display, log |-> breakpointLog, inserted |-> inserted]

\* handleBreakpointChange without its log entry
handleBreakpointChangeNoLog(ui, data, breakpoint, w, h, dev) ==
    [ui EXCEPT !.display = updateUI(@, breakpoint, w, h, dev)]

\* handleBreakpointChange(data), but for its console output: updateUI(),
\* then addLogEntry; the timestamp is read from the clock
handleBreakpointChange(ui, data, breakpoint, w, h, dev) ==
    [ui EXCEPT !.display = updateUI(@, breakpoint, w, h, dev),
               !.log = addLogEntry(@, ui.inserted + 1, data.oldBreakpoint, data.newBreakpoint),
               !.inserted = @ + 1]

\* the UI after the invocations of the coordinator's listener among `cs`
RECURSIVE HandleAll(_, _, _, _, _, _)
HandleAll(cs, ui, breakpoint, w, h, dev) ==
    IF cs = <<>> THEN ui
    ELSE HandleAll(Tail(cs),
                   IF Head(cs).kind = "change" /\ Head(cs).callback = "cbApp"
                   THEN handleBreakpointChange(ui, Head(cs).args[1], breakpoint, w, h, dev)
                   ELSE ui,
                   breakpoint, w, h, dev)

\* ------------------------------------------------------------- debounce
\* the wrapper returned by debounce(func, wait), called with `timeout` as it
\* stands: `if (timeout) clearTimeout(timeout); timeout = setTimeout(..., wait)`
\* the wrapper without its clearTimeout
debounceNoClear(timeout, wait, args) == setTimeout(timeout, wait, args)

\* a wrapper that lets a pending invocation stand and drops the new call
debounceKeepFirst(timeout, wait, args) ==
    IF timeout.armed THEN timeout ELSE setTimeout(timeout, wait, args)

debounce(timeout, wait, args) == setTimeout(clearTimeout(timeout), wait, args)

\* the probed wrapper before its first call. History: `triggers` calls so
\* far, `quiet` ms since the last call (counted up to the wait), `last` the
\* arguments of the last call, `burst` the calls since the wrapper was last
\* quiet for a whole wait, `since` the runs of func since the last call
NoProbe == [timeout |-> NoTimer, ran |-> <<>>, triggers |-> 0, quiet |-> BMDebounceWait,
            last |-> <<>>, burst |-> 0, since |-> 0]

\* ------------------------------------------------------------ initial state
Doms == {d \in [nav : BOOLEAN, toggle : BOOLEAN, menu : BOOLEAN] :
            ~d.nav => (~d.toggle /\ ~d.menu)}
FullDom == [nav |-> TRUE, toggle |-> TRUE, menu |-> TRUE]
NoNavDom == [nav |-> FALSE, toggle |-> FALSE, menu |-> FALSE]
NoQuery == [op |-> "none"]
\* #breakpoint-log as the page may hold it: missing, empty, or holding only
\* the whitespace between its tags
NoLog == [el |-> FALSE, childNodes |-> <<>>]
EmptyLog == [el |-> TRUE, childNodes |-> <<>>]
Logs == {NoLog, EmptyLog, [el |-> TRUE, childNodes |-> <<TextNode>>]}

\* the manager as its constructor leaves it
Manager0 == [callbacks |-> EmptyCallbacks]

\* a page that constructs the manager and the nav without the coordinator
NoApp ==
    /\ app = FALSE
    /\ display = NoDisplay
    /\ device = MouseDevice

\* `new ResponsiveApp()` on a page of W x H whose elements are one of D:
\* BreakpointManager and ResponsiveNav constructors
InitAt(W, H, D) ==
    /\ width \in W
    /\ height \in H
    /\ dom \in D
    /\ currentBreakpoint = getCurrentBreakpoint(width)
    /\ previousBreakpoint = "null"
    /\ resizeObserver = "observing"
    /\ callbacks = IF app THEN onChange(Manager0, "cbApp").callbacks ELSE EmptyCallbacks
    /\ bmTimeout = NoTimer
    /\ isOpen = FALSE
    /\ isMobile = (dom.nav /\ width < mobileBreakpoint)
    /\ menuIsOpen = FALSE
    /\ toggleIsActive = FALSE
    /\ ariaExpanded = "false"
    /\ bodyOverflow = ""
    /\ focus = "body"
    /\ wasOpen = FALSE
    /\ navTimeout = NoTimer
    /\ inserted = 0
    /\ appTimeout = NoTimer
    /\ orientationTimeout = NoTimer
    /\ changes = 0
    /\ probe = NoProbe
    /\ ret = NoQuery
    /\ event = "load"
    /\ calls = <<>>
    /\ checkedWidth = width
    /\ destroyed = FALSE
    /\ dropped = FALSE

\* ------------------------------------------------------------------ actions
\* the user resizes or rotates the viewport to w x h: the window's resize
\* event reaches the nav's debounced listener, and the body's width follows
\* the viewport's, which the manager's ResizeObserver reports while it observes
ViewportChange(w, h) ==
    /\ <<w, h>> # <<width, height>>
    /\ app => changes < MaxChanges
    /\ width' = w
    /\ height' = h
    /\ bmTimeout' = IF resizeObserver = "observing" /\ w # width
                    THEN debounce(bmTimeout, BMDebounceWait, <<"entries">>)
                    ELSE bmTimeout
    /\ navTimeout' = IF NavReady THEN debounce(navTimeout, NavDebounceWait, <<"resize">>)
                     ELSE navTimeout
    /\ appTimeout' = IF app THEN debounce(appTimeout, AppDebounceWait, <<"resize">>)
                     ELSE appTimeout
    /\ calls' = <<>>
    /\ UNCHANGED <<bmVars, dom, uiVars, probe, app, display, device, changes, navVars, ret>>

Resize(w, h) ==
    /\ ViewportChange(w, h)
    /\ event' = "resize"
    /\ UNCHANGED orientationTimeout

\* the device is rotated: the viewport changes, and orientationchange is
\* dispatched next to the resize event
OrientationChange(w, h) ==
    /\ app
    /\ Pending(orientationTimeout) < MaxRotations
    /\ ViewportChange(w, h)
    /\ event' = "orientationchange"
    /\ orientationTimeout' = setTimeout(orientationTimeout, OrientationWait, <<>>)

\* the body's box changes without a viewport resize (content reflow, and the
\* first observation after observe()): only the ResizeObserver reports it
BodyResize ==
    /\ resizeObserver = "observing"
    /\ bmTimeout' = debounce(bmTimeout, BMDebounceWait, <<"entries">>)
    /\ event' = "none"
    /\ calls' = <<>>
    /\ UNCHANGED <<width, height, bmVars, dom, uiVars, probe, appVars, navVars, navTimeout, ret>>

Elapse(t) ==
    [t EXCEPT !.left = IF t.armed THEN @ - Quantum ELSE @,
              !.others = [i \in DOMAIN @ |-> [@[i] EXCEPT !.left = @ - Quantum]]]

\* Quantum ms pass with no event
Tick ==
    /\ Pending(bmTimeout) + Pending(navTimeout) + Pending(probe.timeout)
         + Pending(appTimeout) + Pending(orientationTimeout) > 0
    /\ ~Due(bmTimeout) /\ ~Due(navTimeout) /\ ~Due(probe.timeout)
    /\ ~Due(appTimeout) /\ ~Due(orientationTimeout)
    /\ bmTimeout' = Elapse(bmTimeout)
    /\ navTimeout' = Elapse(navTimeout)
    /\ appTimeout' = Elapse(appTimeout)
    /\ orientationTimeout' = Elapse(orientationTimeout)
    /\ probe' = [probe EXCEPT !.timeout = Elapse(@),
                              !.quiet = IF @ < BMDebounceWait THEN @ + Quantum ELSE @]
    /\ event' = "none"
    /\ calls' = <<>>
    /\ UNCHANGED <<width, height, bmVars, dom, uiVars, app, display, device, changes, navVars, ret>>

\* the manager's debounce timer fires: checkBreakpointChange()
BMTimer ==
    /\ Due(bmTimeout)
    /\ LET m == checkBreakpointChange(Manager, width, height)
           ui == HandleAll(m.calls, UI, m.currentBreakpoint, width, height, device)
       IN /\ SetManager(m)
          /\ display' = ui.display
          /\ breakpointLog' = ui.log
          /\ inserted' = ui.inserted
          /\ changes' = IF app /\ m.currentBreakpoint # currentBreakpoint
                        THEN changes + 1 ELSE changes
    /\ bmTimeout' = Fired(bmTimeout)
    /\ event' = "bmTimer"
    /\ UNCHANGED <<width, height, dom, probe, app, appTimeout, orientationTimeout, device,
                   navVars, navTimeout, ret>>

\* the coordinator's debounce timer fires: updateUI()
AppTimer ==
    /\ Due(appTimeout)
    /\ display' = updateUI(display, currentBreakpoint, width, height, device)
    /\ appTimeout' = Fired(appTimeout)
    /\ event' = "appTimer"
    /\ calls' = <<>>
    /\ UNCHANGED <<width, height, bmVars, bmTimeout, dom, uiVars, probe, app, orientationTimeout,
                   device, changes, navVars, navTimeout, ret>>

\* a timeout of the orientationchange listener fires: updateUI()
OrientationTimer ==
    /\ Due(orientationTimeout)
    /\ display' = updateUI(display, currentBreakpoint, width, height, device)
    /\ orientationTimeout' = Fired(orientationTimeout)
    /\ event' = "orientationTimer"
    /\ calls' = <<>>
    /\ UNCHANGED <<width, height, bmVars, bmTimeout, dom, uiVars, probe, app, appTimeout,
                   device, changes, navVars, navTimeout, ret>>

OnChange(callback) ==
    /\ Registered(callbacks) < MaxRegistrations
    /\ SetManager(onChange(Manager, callback))
    /\ event' = "none"
    /\ UNCHANGED <<width, height, bmTimeout, dom, uiVars, probe, appVars, navVars, navTimeout, ret>>

OnEnter(breakpoint, callback) ==
    /\ Registered(callbacks) < MaxRegistrations
    /\ SetManager(onEnter(Manager, breakpoint, callback))
    /\ event' = "none"
    /\ UNCHANGED <<width, height, bmTimeout, dom, uiVars, probe, appVars, navVars, navTimeout, ret>>

OnExit(breakpoint, callback) ==
    /\ Registered(callbacks) < MaxRegistrations
    /\ SetManager(onExit(Manager, breakpoint, callback))
    /\ event' = "none"
    /\ UNCHANGED <<width, height, bmTimeout, dom, uiVars, probe, appVars, navVars, navTimeout, ret>>

\* destroy() called from outside a listener
Destroy ==
    /\ SetManager(destroy(Manager))
    /\ event' = "none"
    /\ UNCHANGED <<width, height, bmTimeout, dom, uiVars, probe, appVars, navVars, navTimeout, ret>>

\* a click on the toggle: its own listener runs, then the document's unless
\* propagation was stopped
ToggleClick ==
    /\ dom.toggle
    /\ IF NavReady
       THEN LET r == onToggleClick(Nav)
            IN SetNav(IF r.propagate THEN onDocumentClick(r.nav, "toggle") ELSE r.nav)
       ELSE UNCHANGED navVars
    /\ event' = "toggleClick"
    /\ calls' = <<>>
    /\ UNCHANGED <<width, height, bmVars, bmTimeout, dom, uiVars, probe, appVars, navTimeout, ret>>

\* a click elsewhere: on a link of the menu, inside the container, or outside
\* it; a link's own listener runs before the document's
ClickEvent(target) ==
    CASE target = "outside" -> "clickOutside"
      [] target = "container" -> "clickContainer"
      [] target = "link" -> "clickLink"
ClickTargets ==
    {"outside"} \cup (IF dom.nav THEN {"container"} ELSE {})
                \cup (IF dom.menu THEN {"link"} ELSE {})
Click(target) ==
    /\ target \in ClickTargets
    /\ IF NavReady
       THEN SetNav(onDocumentClick(IF target = "link" THEN onLinkClick(Nav) ELSE Nav, target))
       ELSE UNCHANGED navVars
    /\ event' = ClickEvent(target)
    /\ calls' = <<>>
    /\ UNCHANGED <<width, height, bmVars, bmTimeout, dom, uiVars, probe, appVars, navTimeout, ret>>

Keydown(key) ==
    /\ IF NavReady THEN SetNav(onKeydown(Nav, key)) ELSE UNCHANGED navVars
    /\ event' = (IF key = "Escape" THEN "keydownEscape" ELSE "keydown")
    /\ calls' = <<>>
    /\ UNCHANGED <<width, height, bmVars, bmTimeout, dom, uiVars, probe, appVars, navTimeout, ret>>

\* the user moves keyboard focus to another element
FocusTargets ==
    {"body"} \cup (IF dom.toggle THEN {"toggle"} ELSE {})
             \cup (IF dom.menu THEN {"link"} ELSE {})
FocusMove(element) ==
    /\ element \in FocusTargets
    /\ element # focus
    /\ focus' = element
    /\ event' = "focus"
    /\ calls' = <<>>
    /\ UNCHANGED <<width, height, bmVars, bmTimeout, dom, uiVars, probe, appVars, isOpen, isMobile, menuIsOpen,
                   toggleIsActive, ariaExpanded, bodyOverflow, wasOpen, navTimeout, ret>>

\* the nav's debounce timer fires: checkViewport()
NavTimer ==
    /\ Due(navTimeout)
    /\ SetNav(checkViewport(Nav, width))
    /\ navTimeout' = Fired(navTimeout)
    /\ event' = "navTimer"
    /\ calls' = <<>>
    /\ UNCHANGED <<width, height, bmVars, bmTimeout, dom, uiVars, probe, appVars, ret>>

\* public queries of the manager; ret keeps the width the page had
Query(op, arg, val) ==
    /\ ret' = [op |-> op, arg |-> arg, val |-> val, width |-> width]
    /\ event' = "none"
    /\ calls' = <<>>
    /\ UNCHANGED <<width, height, bmVars, bmTimeout, dom, uiVars, probe, appVars, navVars, navTimeout>>

Get == Query("get", "", currentBreakpoint)
Is(breakpoint) == Query("is", breakpoint, is(currentBreakpoint, breakpoint))
IsUp(breakpoint) == Query("isUp", breakpoint, isUp(currentBreakpoint, breakpoint))
IsDown(breakpoint) == Query("isDown", breakpoint, isDown(currentBreakpoint, breakpoint))

\* static queries of DeviceDetector, on the live viewport
GetDeviceInfo(dev) == Query("getDeviceInfo", "", getDeviceInfo(width, height, dev))
DeviceIsMobile == Query("DeviceDetector.isMobile", "", DeviceDetector_isMobile(width))
DeviceIsTablet == Query("DeviceDetector.isTablet", "", DeviceDetector_isTablet(width))
DeviceIsDesktop == Query("DeviceDetector.isDesktop", "", DeviceDetector_isDesktop(width))

\* handleBreakpointChange reaches uiUpdater.addLogEntry(old, new); the
\* timestamp is read from the clock
AddLogEntry(oldBreakpoint, newBreakpoint) ==
    /\ inserted < MaxInsertions
    /\ breakpointLog' = addLogEntry(breakpointLog, inserted + 1, oldBreakpoint, newBreakpoint)
    /\ inserted' = inserted + 1
    /\ event' = "none"
    /\ calls' = <<>>
    /\ UNCHANGED <<width, height, bmVars, bmTimeout, dom, probe, appVars, navVars, navTimeout, ret>>

\* the probed wrapper is called with argument a
ProbeCall(a) ==
    /\ probe.triggers < MaxTriggers
    /\ probe' = [probe EXCEPT !.timeout = debounce(@, BMDebounceWait, <<a>>),
                              !.triggers = @ + 1,
                              !.burst = IF probe.quiet < BMDebounceWait THEN @ + 1 ELSE 1,
                              !.quiet = 0,
                              !.last = <<a>>,
                              !.since = 0]
    /\ event' = "none"
    /\ calls' = <<>>
    /\ UNCHANGED <<width, height, bmVars, bmTimeout, dom, uiVars, appVars, navVars, navTimeout,
                   ret>>

\* a timer of the probed wrapper fires: func(...args)
ProbeTimer ==
    /\ Due(probe.timeout)
    /\ probe' = [probe EXCEPT !.timeout = Fired(@),
                              !.ran = Append(@, FiredArgs(probe.timeout)),
                              !.since = @ + 1]
    /\ event' = "probeTimer"
    /\ calls' = <<>>
    /\ UNCHANGED <<width, height, bmVars, bmTimeout, dom, uiVars, appVars, navVars, navTimeout,
                   ret>>

\* ----------------------------------------------------------- specifications
\* the manager and its listeners, on a page without a .nav element
Init ==
    /\ NoApp
    /\ InitAt(Widths, Heights, {NoNavDom})
    /\ breakpointLog = EmptyLog
Next ==
    \/ \E w \in Widths, h \in Heights : Resize(w, h)
    \/ BodyResize
    \/ Tick
    \/ BMTimer
    \/ \E cb \in Callbacks : OnChange(cb)
    \/ \E bp \in EnterNames, cb \in Callbacks : OnEnter(bp, cb)
    \/ \E bp \in ExitNames, cb \in Callbacks : OnExit(bp, cb)
    \/ Destroy
Spec == Init /\ [][Next]_vars

\* the navigation, on a page whose manager has no listeners and is not torn
\* down, for every combination of .nav, .nav-toggle and .nav-menu
InitNav ==
    /\ NoApp
    /\ InitAt(Widths, Heights, Doms)
    /\ breakpointLog = EmptyLog
NextNav ==
    \/ \E w \in Widths, h \in Heights : Resize(w, h)
    \/ Tick
    \/ BMTimer
    \/ NavTimer
    \/ ToggleClick
    \/ \E target \in {"outside", "container", "link"} : Click(target)
    \/ \E key \in {"Escape", "Enter"} : Keydown(key)
    \/ \E element \in {"body", "toggle", "link"} : FocusMove(element)
SpecNav == InitNav /\ [][NextNav]_vars

\* construction at every width up to MaxWidth, followed by queries
InitFn ==
    /\ NoApp
    /\ InitAt(0..MaxWidth, FnHeights, {FullDom})
    /\ breakpointLog = EmptyLog
NextFn ==
    \/ Get
    \/ \E bp \in NameSet \cup UnknownNames : Is(bp)
    \/ \E bp \in NameSet \cup UnknownNames : IsUp(bp)
    \/ \E bp \in NameSet \cup UnknownNames : IsDown(bp)
    \/ \E dev \in Devices : GetDeviceInfo(dev)
    \/ DeviceIsMobile
    \/ DeviceIsTablet
    \/ DeviceIsDesktop
SpecFn == InitFn /\ [][NextFn]_vars

\* the change log of the UI, fed with a bounded number of entries
InitLog ==
    /\ NoApp
    /\ InitAt(Widths, Heights, {FullDom})
    /\ breakpointLog \in Logs
NextLog == \E pair \in LogPairs : AddLogEntry(pair[1], pair[2])
SpecLog == InitLog /\ [][NextLog]_vars

\* a debounce wrapper called at arbitrary times; time goes on and due timers
\* fire (the event loop runs a timer's callback once its delay has passed)
InitDebounce ==
    /\ NoApp
    /\ InitAt(Widths, Heights, {FullDom})
    /\ breakpointLog = EmptyLog
NextDebounce ==
    \/ \E a \in ProbeArgs : ProbeCall(a)
    \/ Tick
    \/ ProbeTimer
SpecDebounce ==
    InitDebounce /\ [][NextDebounce]_vars /\ WF_vars(Tick) /\ WF_vars(ProbeTimer)

\* the coordinator: `new ResponsiveApp()` on the full page, with all of the
\* text elements and the log or with none; updateUI() has run once and the
\* coordinator's listener is the manager's only one
InitApp ==
    /\ app = TRUE
    /\ InitAt(AppWidths, AppHeights, {FullDom})
    /\ device \in AppDevices
    /\ \E page \in {<<FullDisplay, EmptyLog>>, <<NoDisplay, NoLog>>} :
           /\ display = updateUI(page[1], getCurrentBreakpoint(width), width, height, device)
           /\ breakpointLog = page[2]
NextApp ==
    \/ \E w \in AppWidths, h \in AppHeights : Resize(w, h)
    \/ \E w \in AppWidths, h \in AppHeights : OrientationChange(w, h)
    \/ Tick
    \/ BMTimer
    \/ NavTimer
    \/ AppTimer
    \/ OrientationTimer
\* the event loop runs a timeout that is due: the steps of NextApp that do so,
\* told by the handler they record and the timeout they use up
BMTimerRuns == Due(bmTimeout) /\ event' = "bmTimer" /\ bmTimeout' = Fired(bmTimeout)
NavTimerRuns == Due(navTimeout) /\ event' = "navTimer" /\ navTimeout' = Fired(navTimeout)
AppTimerRuns == Due(appTimeout) /\ event' = "appTimer" /\ appTimeout' = Fired(appTimeout)
OrientationTimerRuns ==
    /\ Due(orientationTimeout)
    /\ event' = "orientationTimer"
    /\ orientationTimeout' = Fired(orientationTimeout)
\* time passes, and timeouts that are due do run
SpecApp ==
    /\ InitApp /\ [][NextApp]_vars
    /\ WF_vars(Tick)
    /\ WF_<<event, bmTimeout>>(BMTimerRuns)
    /\ WF_<<event, navTimeout>>(NavTimerRuns)
    /\ WF_<<event, appTimeout>>(AppTimerRuns)
    /\ WF_<<event, orientationTimeout>>(OrientationTimerRuns)

\* ------------------------------------------------------------------ claims
\* what the specification says of the table, stated without the code's loop
Min(a, b) == IF a <= b THEN a ELSE b
Max(a, b) == IF a >= b THEN a ELSE b
\* the name of the widest breakpoint whose threshold is <= w
Widest(w) ==
    CHOOSE n \in NameSet :
        /\ breakpoints[n] <= w
        /\ \A m \in NameSet : breakpoints[m] <= w => breakpoints[m] <= breakpoints[n]
\* rank: the position of a name of the table in ascending threshold order
Rank(name) == Cardinality({m \in NameSet : breakpoints[m] < breakpoints[name]})
\* how many thresholds lie between two widths
ThresholdsBetween(a, b) ==
    Cardinality({n \in NameSet : Min(a, b) < breakpoints[n] /\ breakpoints[n] <= Max(a, b)})
\* the step is the manager's debounced recomputation
IsCheck == Due(bmTimeout) /\ bmTimeout' = NoTimer
\* the entries of a handler's calls of one kind, in order
OfKind(cs, kind) == SelectSeq(cs, LAMBDA c : c.kind = kind)
CallbacksOf(cs) == [i \in 1..Len(cs) |-> cs[i].callback]
KindOrder(kind) ==
    CASE kind = "change" -> 1 [] kind = "exit" -> 2 [] kind = "enter" -> 3 [] kind = "event" -> 4

ExamplesC1 ==
    {<<0, "xs">>, <<575, "xs">>, <<576, "sm">>, <<767, "sm">>, <<768, "md">>,
     <<1023, "md">>, <<1024, "lg">>, <<1279, "lg">>, <<1280, "xl">>, <<1535, "xl">>,
     <<1536, "xxl">>, <<2000, "xxl">>}

\* C1: at every width from 0 to MaxWidth the breakpoint the manager computes
\* (and get() returns) is the name of the widest breakpoint whose threshold is
\* <= the width; 0->xs, 575->xs, 576->sm, 767->sm, 768->md, 1023->md, 1024->lg,
\* 1279->lg, 1280->xl, 1535->xl, 1536->xxl, 2000->xxl.
C1_WidestBreakpoint ==
    ret.op = "get" =>
        /\ ret.val = Widest(ret.width)
        /\ \A e \in ExamplesC1 : ret.width = e[1] => ret.val = e[2]
C1_Witness == ret.op = "get" /\ ret.width = 1535 /\ ret.val = "xl"

\* C2: the breakpoint computed at a width is one name of the table, and its
\* rank is monotone in the width: no smaller width gets a higher rank and no
\* larger width a lower one.
C2_OneNameMonotone ==
    ret.op = "get" =>
        /\ ret.val \in NameSet
        /\ \A w \in 0..MaxWidth :
            /\ w <= ret.width => Rank(getCurrentBreakpoint(w)) <= Rank(ret.val)
            /\ w >= ret.width => Rank(getCurrentBreakpoint(w)) >= Rank(ret.val)
C2_Witness == ret.op = "get" /\ ret.width = 1024 /\ Rank(ret.val) = 3

\* C3: a recomputation that detects a transition invokes, in one handler, all
\* change listeners in registration order, then the exit listeners of the
\* breakpoint left, then the enter listeners of the breakpoint entered (the
\* exit and enter listeners as registered, unless a listener tore the manager
\* down meanwhile); no exit listener runs before a change listener and no
\* enter listener before an exit listener.
C3_Step ==
    (IsCheck /\ getCurrentBreakpoint(width) # currentBreakpoint) =>
        /\ \A i, j \in 1..Len(calls') :
              i < j => KindOrder(calls'[i].kind) <= KindOrder(calls'[j].kind)
        /\ CallbacksOf(OfKind(calls', "change")) = callbacks.change
        /\ (\A i \in 1..Len(calls') : calls'[i].callback # "cbDestroy") =>
              /\ CallbacksOf(OfKind(calls', "exit")) = callbacks.exit[currentBreakpoint]
              /\ CallbacksOf(OfKind(calls', "enter")) =
                    callbacks.enter[getCurrentBreakpoint(width)]
C3_ChangeExitEnter == [][C3_Step]_vars
C3_Witness ==
    /\ Len(calls) = 4
    /\ calls[1].kind = "change" /\ calls[2].kind = "exit" /\ calls[3].kind = "enter"

\* C4: when the recomputation runs after the width moved across exactly one
\* threshold since the breakpoint was last computed, exactly one change event
\* is produced: one breakpointChange event is dispatched, and it and every
\* change listener get oldBreakpoint = the band left and newBreakpoint = the
\* band entered.
C4_Step ==
    (IsCheck /\ ThresholdsBetween(checkedWidth, width) = 1) =>
        /\ Len(OfKind(calls', "event")) = 1
        /\ \A i \in 1..Len(calls') :
              calls'[i].kind \in {"event", "change"} =>
                 /\ calls'[i].args[1].oldBreakpoint = Widest(checkedWidth)
                 /\ calls'[i].args[1].newBreakpoint = Widest(width)
C4_OneThresholdOneEvent == [][C4_Step]_vars
C4_Witness ==
    /\ Len(calls) = 2
    /\ calls[1].kind = "change" /\ calls[2].kind = "event"
    /\ calls[2].args[1].oldBreakpoint = "md" /\ calls[2].args[1].newBreakpoint = "sm"

\* C5: when the recomputation finds the width in the band of the stored
\* current breakpoint, no listener is invoked, no event is dispatched and the
\* current and previous breakpoint stay as they were.
C5_Step ==
    (IsCheck /\ Widest(width) = currentBreakpoint) =>
        /\ calls' = <<>>
        /\ UNCHANGED <<currentBreakpoint, previousBreakpoint>>
C5_SameBandSilent == [][C5_Step]_vars
C5_Witness ==
    /\ event = "bmTimer" /\ calls = <<>>
    /\ width = 767 /\ currentBreakpoint = "sm" /\ previousBreakpoint = "md"
    /\ callbacks.change # <<>>

\* C6: after destroy() has returned no listener is invoked and no
\* breakpointChange event is dispatched.
C6_NothingAfterDestroy == \A i \in 1..Len(calls) : ~calls[i].late

\* C7: a resize after destroy() has returned runs no listener and schedules no
\* recomputation, so nothing registered before destroy() is invoked as a
\* result of it, also when it crosses a threshold.
C7_Step ==
    (destroyed /\ <<width, height>>' # <<width, height>>) =>
        /\ calls' = <<>>
        /\ bmTimeout' = bmTimeout
C7_ResizeAfterDestroy == [][C7_Step]_vars
C7_Witness ==
    /\ destroyed /\ dropped
    /\ event = "resize" /\ ~bmTimeout.armed
    /\ ThresholdsBetween(checkedWidth, width) > 0

\* C8: for a target of the table, isUp is true exactly when the rank of the
\* current breakpoint is >= the target's and isDown exactly when it is <=;
\* both are true only for the current breakpoint itself.
C8_IsUpIsDownByRank ==
    /\ (ret.op = "isUp" /\ ret.arg \in NameSet) =>
            (ret.val <=> Rank(currentBreakpoint) >= Rank(ret.arg))
    /\ (ret.op = "isDown" /\ ret.arg \in NameSet) =>
            (ret.val <=> Rank(currentBreakpoint) <= Rank(ret.arg))
    /\ \A t \in NameSet :
            (isUp(currentBreakpoint, t) /\ isDown(currentBreakpoint, t)) => currentBreakpoint = t
C8_Witness == ret.op = "isUp" /\ ret.arg = "md" /\ currentBreakpoint = "lg" /\ ret.val

\* C9: for a name that is not in the table the rank is -1 and isUp and isDown
\* both return false.
C9_UnknownNameFalse ==
    (ret.op \in {"isUp", "isDown"} /\ ret.arg \notin NameSet) =>
        /\ indexOf(ret.arg) = 0 - 1
        /\ ret.val = FALSE

\* C10: an initialised navigation starts Closed; a toggle activation while
\* Closed leaves it Open and one while Open leaves it Closed; the nav goes
\* from Closed to Open in no step but a toggle activation.
C10_Step ==
    /\ (event' = "toggleClick" /\ NavReady) => isOpen' = ~isOpen
    /\ (~isOpen /\ isOpen') => event' = "toggleClick"
C10_ToggleOpensAndCloses == [](event = "load" => ~isOpen) /\ [][C10_Step]_vars
C10_Witness == NavReady /\ event = "toggleClick" /\ ~isOpen

\* C11: every transition from Closed to Open puts 'is-open' on the menu and
\* 'is-active' on the toggle, sets aria-expanded to "true", and suspends page
\* scroll exactly when the nav is in mobile mode at that moment; opening in
\* non-mobile mode leaves document.body.style.overflow as it was.
C11_Step ==
    (~isOpen /\ isOpen') =>
        /\ menuIsOpen' /\ toggleIsActive' /\ ariaExpanded' = "true"
        /\ (bodyOverflow' = "hidden") <=> isMobile
        /\ ~isMobile => bodyOverflow' = bodyOverflow
        /\ isMobile' = isMobile
C11_OpenSideEffects == [][C11_Step]_vars
\* the nav has just been opened in non-mobile mode, scroll untouched
C11_Witness ==
    /\ event = "toggleClick" /\ ~wasOpen /\ isOpen /\ ~isMobile
    /\ menuIsOpen /\ toggleIsActive /\ bodyOverflow = ""

\* C12: every transition from Open to Closed removes both markers, sets
\* aria-expanded to "false" and clears the scroll suspension, whatever the mode
\* the nav was opened in; and a close trigger (outside click, Escape, link
\* click, debounced resize check) that arrives while the nav is Closed changes
\* none of isOpen, the markers, aria-expanded, the scroll lock and the focus.
CloseTriggers == {"clickOutside", "keydownEscape", "clickLink", "navTimer"}
C12_Step ==
    /\ (isOpen /\ ~isOpen') =>
           ~menuIsOpen' /\ ~toggleIsActive' /\ ariaExpanded' = "false" /\ bodyOverflow' = ""
    /\ (~isOpen /\ event' \in CloseTriggers) =>
           UNCHANGED <<isOpen, menuIsOpen, toggleIsActive, ariaExpanded, bodyOverflow, focus>>
C12_CloseClearsAndIsIdempotent == [][C12_Step]_vars
\* Escape was pressed on an initialised, Closed nav while a link had the focus
C12_Witness ==
    /\ dom.nav /\ dom.toggle /\ dom.menu
    /\ event = "keydownEscape" /\ ~wasOpen /\ ~isOpen /\ focus = "link"

\* C13: while the nav is Open, a click outside the container closes it, and
\* Escape closes it and moves the focus to the toggle, in mobile and in
\* non-mobile mode alike; a click inside the container (not on the toggle, and
\* not on a link in mobile mode) leaves it Open with nothing changed.
NavState == <<isOpen, isMobile, menuIsOpen, toggleIsActive, ariaExpanded, bodyOverflow, focus>>
IsClosed(open, menu, toggle, aria, overflow) ==
    ~open /\ ~menu /\ ~toggle /\ aria = "false" /\ overflow = ""
C13_Step ==
    (dom.nav /\ dom.toggle /\ dom.menu /\ isOpen) =>
        /\ event' = "clickOutside" =>
               /\ IsClosed(isOpen', menuIsOpen', toggleIsActive', ariaExpanded', bodyOverflow')
               /\ focus' = focus
        /\ event' = "keydownEscape" =>
               /\ IsClosed(isOpen', menuIsOpen', toggleIsActive', ariaExpanded', bodyOverflow')
               /\ focus' = "toggle"
        /\ (event' = "clickContainer" \/ (event' = "clickLink" /\ ~isMobile)) =>
               UNCHANGED NavState
C13_OutsideClickAndEscapeClose == [][C13_Step]_vars
\* Escape has just closed a nav that was Open in non-mobile mode
C13_Witness ==
    /\ event = "keydownEscape" /\ wasOpen /\ ~isOpen /\ ~isMobile /\ focus = "toggle"

\* C14: a click on a link of the menu while the nav is Open closes it if and
\* only if the nav is in mobile mode; in non-mobile mode it stays Open with
\* markers, aria-expanded and scroll state as they were.
C14_Step ==
    (dom.nav /\ dom.toggle /\ dom.menu /\ isOpen /\ event' = "clickLink") =>
        /\ ~isOpen' <=> isMobile
        /\ isMobile =>
               IsClosed(isOpen', menuIsOpen', toggleIsActive', ariaExpanded', bodyOverflow')
        /\ ~isMobile => UNCHANGED NavState
C14_LinkClosesOnlyInMobile == [][C14_Step]_vars
\* a link was clicked on a nav Open in non-mobile mode, and it is still Open
C14_Witness ==
    /\ event = "clickLink" /\ wasOpen /\ isOpen /\ ~isMobile
    /\ menuIsOpen /\ toggleIsActive /\ ariaExpanded = "true"

\* C15: when the debounced viewport check finds the mode flipped from mobile
\* to non-mobile while the nav is Open, that same check closes the nav (markers
\* removed, aria-expanded "false", overflow cleared); a flip from non-mobile to
\* mobile, a check without a flip and any check while Closed change only the
\* isMobile flag.
C15_Step ==
    (dom.nav /\ dom.toggle /\ dom.menu /\ event' = "navTimer") =>
        /\ isMobile' = (width < mobileBreakpoint)
        /\ focus' = focus
        /\ IF isMobile /\ ~isMobile' /\ isOpen
           THEN IsClosed(isOpen', menuIsOpen', toggleIsActive', ariaExpanded', bodyOverflow')
           ELSE UNCHANGED <<isOpen, menuIsOpen, toggleIsActive, ariaExpanded, bodyOverflow>>
C15_FlipToDesktopCloses == [][C15_Step]_vars
\* the check has just closed a nav that was Open when the mode left mobile
C15_Witness ==
    /\ event = "navTimer" /\ wasOpen /\ ~isOpen /\ ~isMobile /\ bodyOverflow = ""

\* C16: in every reachable state the nav is not Open while its mode is
\* non-mobile (the desktop layout never shows the overlay menu state).
C16_NeverOpenInDesktopMode == ~(isOpen /\ ~isMobile)
\* C16, amended: the nav is Open in non-mobile mode only from a toggle click
\* made in non-mobile mode on; no resize check, click or key press takes an
\* Open nav from mobile to non-mobile mode or opens it there.
C16_Step ==
    (isOpen' /\ ~isMobile') =>
        \/ isOpen /\ ~isMobile
        \/ event' = "toggleClick" /\ ~isOpen /\ ~isMobile
C16_OpenInDesktopModeOnlyByToggle == [](event = "load" => ~isOpen) /\ [][C16_Step]_vars
\* a nav opened in non-mobile mode is still Open after a debounced check
C16_Witness == event = "navTimer" /\ wasOpen /\ isOpen /\ ~isMobile

\* C17: when .nav, .nav-toggle or .nav-menu is absent the nav is inert: it is
\* Closed in every state, no click, key press, resize or timer changes any of
\* its fields or of the DOM state it would write, it arms no timer and moves
\* no focus, while the manager built next to it still follows the viewport.
Inert == ~(dom.nav /\ dom.toggle /\ dom.menu)
C17_Step ==
    Inert =>
        /\ UNCHANGED <<isOpen, isMobile, menuIsOpen, toggleIsActive, ariaExpanded, bodyOverflow>>
        /\ event' # "focus" => focus' = focus
        /\ (width' # width /\ resizeObserver = "observing") => bmTimeout'.armed
        /\ event' = "bmTimer" => currentBreakpoint' = Widest(width)
ExamplesC18 == {<<500, "mobile">>, <<900, "tablet">>, <<1200, "desktop">>}
C18_DeviceTypeByCutOffs ==
    ret.op = "getDeviceInfo" =>
        /\ (ret.val.type = "mobile") <=> (ret.width < 768)
        /\ (ret.val.type = "tablet") <=> (768 <= ret.width /\ ret.width < 1024)
        /\ (ret.val.type = "desktop") <=> (ret.width >= 1024)
        /\ \A e \in ExamplesC18 : ret.width = e[1] => ret.val.type = e[2]
\* the device was classified at the first tablet width
C18_Witness ==
    /\ ret.op = "getDeviceInfo" /\ ret.width = 768 /\ ret.val.type = "tablet"
    /\ currentBreakpoint = "md"

\* C19: the change log never holds more than 10 entries; every insertion puts
\* the new entry first and drops entries from the back while there are more
\* than 10, so that from the 11th insertion into an empty log on the first
\* entry inserted is gone and the most recent one is first.
Entries == children(breakpointLog.childNodes)
FirstN(seq, n) == SubSeq(seq, 1, Min(n, Len(seq)))
C19_Step ==
    (breakpointLog.el /\ inserted' = inserted + 1) =>
        LET new == children(breakpointLog'.childNodes)
        IN /\ Len(new) = Min(Len(Entries) + 1, 10)
           /\ Head(new).timestamp = inserted'
           /\ Tail(new) = FirstN(Entries, 9)
C19_LogBounded ==
    /\ [](/\ Len(Entries) <= 10
          /\ (breakpointLog.el /\ inserted >= 11) =>
                 /\ \A i \in 1..Len(Entries) : Entries[i].timestamp # 1
                 /\ Entries[1].timestamp = inserted)
    /\ [][C19_Step]_vars
\* eleven entries went into a log that started empty: ten are left, the
\* newest first and the second one inserted last
C19_Witness ==
    /\ breakpointLog.el /\ inserted = 11 /\ Len(Entries) = 10
    /\ Entries[1].timestamp = 11 /\ Entries[10].timestamp = 2

\* C20: a debounce wrapper never has more than one invocation of its callback
\* scheduled: a trigger that arrives while one is pending cancels it and
\* schedules one new invocation, a full wait ahead.
C20_Step ==
    /\ (event' = "resize" /\ width' # width /\ resizeObserver = "observing") =>
           Pending(bmTimeout') = 1 /\ bmTimeout'.left = BMDebounceWait
    /\ (event' = "resize" /\ dom.nav /\ dom.toggle /\ dom.menu) =>
           Pending(navTimeout') = 1 /\ navTimeout'.left = NavDebounceWait
C20_OnePendingInvocation ==
    /\ [](Pending(bmTimeout) <= 1 /\ Pending(navTimeout) <= 1)
    /\ [][C20_Step]_vars
\* the viewport is back at the width of the last check: it was resized away
\* and back before the manager's 100 ms had passed, so the second trigger of
\* either wrapper arrived while the first invocation was pending
C20_Witness ==
    /\ dom.nav /\ dom.toggle /\ dom.menu
    /\ event = "resize" /\ width = checkedWidth
    /\ Pending(bmTimeout) = 1 /\ bmTimeout.left = BMDebounceWait
    /\ Pending(navTimeout) = 1 /\ navTimeout.left = NavDebounceWait

\* C21: a burst of calls of a debounced function, each made before the wait
\* of the previous one is over, gives exactly one run of the function: no
\* run happens before a whole wait has passed since the last call, the run
\* gets the arguments of the last call, no second run follows without a new
\* call, and once the calls stop the run does happen.
C21_Step ==
    (Len(probe'.ran) > Len(probe.ran)) =>
        /\ probe.quiet = BMDebounceWait
        /\ probe'.ran = Append(probe.ran, probe.last)
        /\ probe.since = 0
        /\ Pending(probe'.timeout) = 0
C21_OneRunPerBurst ==
    /\ [][C21_Step]_vars
    /\ [](probe.since <= 1)
    /\ (probe.triggers > 0 /\ probe.since = 0) ~> (probe.since = 1)
\* three calls less than a wait apart, the last one with "b", then one run
C21_Witness ==
    /\ probe.triggers = 3 /\ probe.burst = 3 /\ probe.since = 1
    /\ probe.ran = << <<"b">> >>

\* C22: on every breakpoint change the coordinator writes the "desktop"
\* classification to the console when the new breakpoint is one of the two
\* largest of the table, the "mobile" one when it is one of the two smallest,
\* and no classification for any other breakpoint.
TwoLargest == {BreakpointNames[i] : i \in (Len(BreakpointNames) - 1)..Len(BreakpointNames)}
TwoSmallest == {BreakpointNames[i] : i \in 1..2}
Classified ==
    {calls[i].name : i \in {j \in DOMAIN calls : calls[j].kind = "console"}}
        \ {"Breakpoint changed"}
ChangeHandled == \E i \in DOMAIN calls : calls[i].kind = "change" /\ calls[i].callback = "cbApp"
C22_ConsoleClassification ==
    ChangeHandled =>
        Classified = IF currentBreakpoint \in TwoLargest THEN {"Desktop view"}
                     ELSE IF currentBreakpoint \in TwoSmallest THEN {"Mobile view"}
                     ELSE {}

\* C23: for every breakpoint change event the coordinator refreshes the UI so
\* that the displayed breakpoint is the event's newBreakpoint, and inserts
\* exactly one log entry naming the event's oldBreakpoint and newBreakpoint,
\* upper-cased; the number of log insertions since startup always equals the
\* number of change events since startup.
Insertions == IF breakpointLog.el THEN inserted ELSE 0
C23_EveryChangeShownAndLogged ==
    /\ Insertions = changes
    /\ ChangeHandled =>
           /\ "current-breakpoint" \in display.els =>
                  display.text["current-breakpoint"] = toUpperCase(currentBreakpoint)
           /\ Len(Entries) > 0
           /\ Head(Entries).from = toUpperCase(previousBreakpoint)
           /\ Head(Entries).to = toUpperCase(currentBreakpoint)
\* C23, amended: on a page that holds #current-breakpoint the displayed
\* breakpoint is the event's newBreakpoint after every change event, and on a
\* page that holds #breakpoint-log every change event inserts exactly one
\* entry, first in the log, naming the event's oldBreakpoint and newBreakpoint
\* upper-cased, no other step touches the log, and the insertions since
\* startup equal the change events since startup; where an element is
\* missing, the event leaves what it would have written as it was.
C23_Step ==
    /\ changes' = changes + 1 =>
           /\ event' = "bmTimer" /\ currentBreakpoint' # currentBreakpoint
           /\ display'.text["current-breakpoint"] =
                  IF "current-breakpoint" \in display.els
                  THEN toUpperCase(currentBreakpoint')
                  ELSE display.text["current-breakpoint"]
           /\ children(breakpointLog'.childNodes) =
                  IF breakpointLog.el
                  THEN <<LogEntry(inserted', currentBreakpoint, currentBreakpoint')>>
                           \o FirstN(Entries, LogCapacity - 1)
                  ELSE Entries
    /\ changes' = changes => breakpointLog' = breakpointLog
C23_ChangeShownAndLoggedWhereElementsExist ==
    /\ [](/\ breakpointLog.el => inserted = changes
          /\ ~breakpointLog.el => Entries = <<>>)
    /\ [][C23_Step]_vars
\* the page holds every element; the change from xl to xxl was handled
C23_Witness ==
    /\ event = "bmTimer" /\ changes = 1 /\ breakpointLog.el
    /\ display.text["current-breakpoint"] = "XXL"
    /\ Len(Entries) = 1 /\ Entries[1].from = "XL" /\ Entries[1].to = "XXL"

\* C24: after a resize or an orientation change that alters the viewport's
\* dimensions without crossing a threshold of the table, the coordinator
\* still refreshes the UI: once its debounce has elapsed with no further
\* resize, the viewport dimensions displayed (by the elements the page holds)
\* are the current width and height, although no change event fired.
ShownDimensions(d, w, h) ==
    /\ "viewport-dimensions" \in d.els => d.text["viewport-dimensions"] = <<w, "x", h>>
    /\ "viewport-size" \in d.els => d.text["viewport-size"] = <<w, " x ", h>>
C24_Step ==
    /\ event' \in {"appTimer", "orientationTimer"} =>
           /\ ShownDimensions(display', width, height)
           /\ calls' = <<>>
           /\ UNCHANGED <<width, height, currentBreakpoint, changes>>
    /\ event' \in {"resize", "orientationchange"} =>
           appTimeout'.armed /\ appTimeout'.left = AppDebounceWait
C24_RefreshWithoutChange ==
    /\ [](~appTimeout.armed => ShownDimensions(display, width, height))
    /\ [][C24_Step]_vars
    /\ (appTimeout.armed /\ appTimeout.left < AppDebounceWait)
          ~> \/ ~appTimeout.armed /\ ShownDimensions(display, width, height)
             \/ appTimeout.armed /\ appTimeout.left = AppDebounceWait
\* the viewport was resized within the widest band and is now 1600 wide: no
\* change was ever detected, and the debounced refresh has just shown the
\* dimensions
C24_Witness ==
    /\ event = "appTimer" /\ changes = 0 /\ previousBreakpoint = "null"
    /\ currentBreakpoint = "xxl" /\ width = 1600
    /\ display.text["viewport-dimensions"] = <<1600, "x", 800>>
    /\ display.text["viewport-size"] = <<1600, " x ", 800>>

\* C25: the current breakpoint is a name of the table, never null, in every
\* state from construction on, where it is the band of the width the page was
\* loaded at before any observation has been handled; the previous breakpoint
\* is null exactly as long as no change has been detected, and after each
\* change it is the name that was current just before it, hence differs from
\* the current one.
Detected == event' = "bmTimer" /\ OfKind(calls', "event") # <<>>
C25_Step ==
    /\ Detected =>
           /\ previousBreakpoint' = currentBreakpoint
           /\ currentBreakpoint' # currentBreakpoint
    /\ ~Detected => UNCHANGED <<currentBreakpoint, previousBreakpoint>>
C25_CurrentAndPreviousBreakpoint ==
    /\ [](/\ currentBreakpoint \in NameSet
          /\ previousBreakpoint \in NameSet \cup {"null"}
          /\ previousBreakpoint # currentBreakpoint
          /\ event = "load" =>
                 /\ currentBreakpoint = Widest(width)
                 /\ previousBreakpoint = "null"
                 /\ resizeObserver = "observing" /\ Pending(bmTimeout) = 0)
    /\ [][C25_Step]_vars
\* the manager has just detected the change from md back down to sm
C25_Witness ==
    /\ event = "bmTimer" /\ OfKind(calls, "event") # <<>>
    /\ previousBreakpoint = "md" /\ currentBreakpoint = "sm" /\ width = 767

\* C26: within each registry (change, enter per breakpoint, exit per
\* breakpoint) the listeners are invoked in the order they were registered,
\* and registration does not de-duplicate: every registration appends the
\* listener at the end of its registry, whether or not it is there already,
\* and a transition invokes the listeners of a registry as the registry lists
\* them, a listener registered k times k times (the exit and enter registries
\* being empty once a listener invoked earlier in the transition has torn the
\* manager down).
Times(seq, cb) == Cardinality({i \in DOMAIN seq : seq[i] = cb})
Grown(old, new) == \E cb \in Callbacks : new = Append(old, cb)
C26_Step ==
    /\ (event' = "none" /\ callbacks' # callbacks
            /\ Registered(callbacks') > Registered(callbacks)) =>
           \/ /\ Grown(callbacks.change, callbacks'.change)
              /\ callbacks'.enter = callbacks.enter /\ callbacks'.exit = callbacks.exit
           \/ \E name \in RegistryKeys :
                 /\ Grown(callbacks.enter[name], callbacks'.enter[name])
                 /\ callbacks' = [callbacks EXCEPT !.enter[name] = callbacks'.enter[name]]
           \/ \E name \in RegistryKeys :
                 /\ Grown(callbacks.exit[name], callbacks'.exit[name])
                 /\ callbacks' = [callbacks EXCEPT !.exit[name] = callbacks'.exit[name]]
    /\ (IsCheck /\ getCurrentBreakpoint(width) # currentBreakpoint) =>
           LET change == CallbacksOf(OfKind(calls', "change"))
               exit == CallbacksOf(OfKind(calls', "exit"))
               enter == CallbacksOf(OfKind(calls', "enter"))
           IN /\ change = callbacks.change
              /\ exit = IF Times(change, "cbDestroy") > 0 THEN <<>>
                        ELSE callbacks.exit[currentBreakpoint]
              /\ enter = IF Times(change \o exit, "cbDestroy") > 0 THEN <<>>
                         ELSE callbacks.enter[getCurrentBreakpoint(width)]
              /\ \A cb \in Callbacks : Times(change, cb) = Times(callbacks.change, cb)
C26_RegistrationOrderNoDedup == [][C26_Step]_vars
\* a plain listener registered twice for changes and the tearing-down one
\* registered after it: the transition has invoked them in that order, the
\* plain one twice
C26_Witness ==
    /\ event = "bmTimer"
    /\ CallbacksOf(OfKind(calls, "change")) = <<"cbA", "cbA", "cbDestroy">>

\* C27: every detected breakpoint transition dispatches exactly one
\* breakpointChange event on the window, after the change, exit and enter
\* listeners of that transition have run, carrying the record {oldBreakpoint,
\* newBreakpoint, width, height} the change listeners received; no such event
\* is dispatched without a transition.
C27_Step ==
    IF IsCheck /\ getCurrentBreakpoint(width) # currentBreakpoint
    THEN /\ Len(OfKind(calls', "event")) = 1
         /\ LET last == calls'[Len(calls')]
            IN /\ last.kind = "event" /\ last.name = "breakpointChange"
               /\ last.args = <<[oldBreakpoint |-> currentBreakpoint,
                                 newBreakpoint |-> getCurrentBreakpoint(width),
                                 width |-> width, height |-> height]>>
               /\ \A i \in 1..Len(calls') :
                      calls'[i].kind = "change" => calls'[i].args = last.args
    ELSE OfKind(calls', "event") = <<>>
C27_OneEventPerTransition == [][C27_Step]_vars
\* a transition with a change, an exit and an enter listener: the event came
\* fourth, with the record the change listener got
C27_Witness ==
    /\ event = "bmTimer" /\ Len(calls) = 4
    /\ calls[1].kind = "change" /\ calls[2].kind = "exit" /\ calls[3].kind = "enter"
    /\ calls[4].kind = "event" /\ calls[4].args = calls[1].args
    /\ calls[4].args[1].oldBreakpoint = "sm" /\ calls[4].args[1].newBreakpoint = "md"

\* C28: the orientation getDeviceInfo() reports is 'portrait' exactly when the
\* viewport's height is greater than its width, and 'landscape' otherwise; a
\* square viewport (height = width) is 'landscape'.
C28_OrientationByHeightOverWidth ==
    ret.op = "getDeviceInfo" =>
        /\ ret.val.orientation \in {"portrait", "landscape"}
        /\ (ret.val.orientation = "portrait") <=> (height > ret.width)
        /\ height = ret.width => ret.val.orientation = "landscape"
\* the device information was read on a square viewport
C28_Witness ==
    /\ ret.op = "getDeviceInfo" /\ ret.width = height
    /\ ret.val.orientation = "landscape"

\* C29: whenever the page scroll is suspended by the navigation the nav is
\* Open and in mobile mode, in every state between two event handlers; a
\* Closed nav never leaves the page scroll suspended.
C29_LockedOnlyWhenOpenAndMobile ==
    /\ bodyOverflow = "hidden" => isOpen /\ isMobile
    /\ ~isOpen => bodyOverflow = ""
\* the nav was opened in mobile mode with the scroll suspended, and has just
\* been closed by a click outside it: the scroll is released
C29_Witness ==
    /\ event = "clickOutside" /\ wasOpen /\ ~isOpen /\ isMobile /\ bodyOverflow = ""

\* C30: whenever the nav is Open and in mobile mode the page scroll is
\* suspended, in every state reachable by toggle activations and debounced
\* resizes, also when the nav was opened in non-mobile mode and the viewport
\* became mobile later.
C30_OpenAndMobileImpliesLocked ==
    (isOpen /\ isMobile) => bodyOverflow = "hidden"

\* C31: the nav's isOpen flag and its visible markers never diverge: in every
\* state between two event handlers isOpen is true if and only if the menu
\* carries 'is-open', the toggle carries 'is-active' and aria-expanded is
\* 'true'; the three markers are all set or all cleared.
C31_FlagAndMarkersAgree ==
    /\ isOpen <=> (menuIsOpen /\ toggleIsActive /\ ariaExpanded = "true")
    /\ ~isOpen => (~menuIsOpen /\ ~toggleIsActive /\ ariaExpanded = "false")
\* the toggle has just opened the nav in mobile mode: flag and markers set
C31_Witness ==
    /\ event = "toggleClick" /\ ~wasOpen /\ isOpen /\ isMobile
    /\ menuIsOpen /\ toggleIsActive /\ ariaExpanded = "true"

\* C32: the change events form a chain: in every event oldBreakpoint differs
\* from newBreakpoint and newBreakpoint is the band of the event's width; the
\* first event's oldBreakpoint is the breakpoint computed at construction and
\* each later event's oldBreakpoint is the newBreakpoint of the event before.
\* (The stored current breakpoint carries the chain: it is the band of the
\* width at construction, every event goes from it to the value it takes in
\* that step, and no step without an event changes it.)
Events(cs) == SelectSeq(cs, LAMBDA c : c.kind = "event" \/ c.kind = "change")
C32_Step ==
    /\ \A i \in DOMAIN Events(calls') :
           LET detail == Events(calls')[i].args[1]
           IN /\ detail.oldBreakpoint # detail.newBreakpoint
              /\ detail.newBreakpoint = Widest(detail.width)
              /\ detail.width = width
              /\ detail.oldBreakpoint = currentBreakpoint
              /\ detail.newBreakpoint = currentBreakpoint'
    /\ Events(calls') = <<>> => currentBreakpoint' = currentBreakpoint
C32_EventsFormAChain ==
    /\ [](event = "load" => (currentBreakpoint = Widest(width) /\ calls = <<>>))
    /\ [][C32_Step]_vars
\* a change has just been announced to a listener and on the window: from md,
\* the breakpoint stored until then, to lg, the band of the width 1024
C32_Witness ==
    /\ event = "bmTimer" /\ Len(Events(calls)) = 2
    /\ calls[1].args[1].oldBreakpoint = "md" /\ calls[1].args[1].newBreakpoint = "lg"
    /\ calls[1].args[1].width = 1024 /\ dropped = FALSE

\* C33: when the width has crossed several thresholds by the time the
\* debounced recomputation runs (xs to lg, say), one change event is produced,
\* from the old band to the final band; only exit listeners of the old
\* breakpoint and enter listeners of the final breakpoint run, and no enter or
\* exit listener of a breakpoint skipped in between is invoked.
C33_Step ==
    (IsCheck /\ ThresholdsBetween(checkedWidth, width) >= 2) =>
        /\ Len(OfKind(calls', "event")) = 1
        /\ \A i \in DOMAIN calls' :
              /\ calls'[i].kind \in {"event", "change"} =>
                     /\ calls'[i].args[1].oldBreakpoint = Widest(checkedWidth)
                     /\ calls'[i].args[1].newBreakpoint = Widest(width)
              /\ calls'[i].kind = "exit" => calls'[i].name = Widest(checkedWidth)
              /\ calls'[i].kind = "enter" => calls'[i].name = Widest(width)
C33_SkippedBandsSilent == [][C33_Step]_vars
\* the recomputation found the width gone from xs to lg: one event, and the
\* listeners registered for leaving sm and for entering md were not invoked
C33_Witness ==
    /\ event = "bmTimer" /\ Len(calls) = 1 /\ calls[1].kind = "event"
    /\ calls[1].args[1].oldBreakpoint = "xs" /\ calls[1].args[1].newBreakpoint = "lg"
    /\ callbacks.exit["sm"] # <<>> /\ callbacks.enter["md"] # <<>>

\* C34: every UI refresh displays a breakpoint name that is the band of the
\* viewport width the same refresh displays, for every interleaving of the
\* manager's debounced recomputation (100 ms), the coordinator's debounced
\* resize refresh (250 ms) and its delayed orientation-change refresh.
C34_ShownBreakpointIsBandOfShownWidth ==
    ({"current-breakpoint", "viewport-dimensions"} \subseteq display.els) =>
        display.text["current-breakpoint"] =
            toUpperCase(Widest(display.text["viewport-dimensions"][1]))

\* no debounced recomputation is pending and the manager is not torn down
Quiescent ==
    /\ Pending(bmTimeout) = 0
    /\ Pending(navTimeout) = 0
    /\ ~destroyed
    /\ resizeObserver = "observing"

\* the nav's flag, the detector's type and the manager's band name one class
ClassificationsAgree(mobile, type, breakpoint) ==
    /\ mobile <=> type = "mobile"
    /\ type = "mobile" <=> breakpoint \in {"xs", "sm"}
    /\ type = "tablet" <=> breakpoint = "md"
    /\ type = "desktop" <=> breakpoint \in {"lg", "xl", "xxl"}

\* the three threshold sets classify every width up to MaxWidth alike
ThresholdsAgree ==
    \A w \in 0..MaxWidth :
        ClassificationsAgree(w < mobileBreakpoint, getDeviceType(w),
                             getCurrentBreakpoint(w))

\* C35 as stated: once every debounced recomputation has run after the last
\* resize and without teardown, the nav is in mobile mode exactly when the
\* detector's type is mobile exactly when the breakpoint is xs or sm, tablet
\* coincides with md and desktop with lg, xl or xxl -- on every page
C35_ClassificationsAgreeWhenQuiescent ==
    Quiescent => ClassificationsAgree(isMobile, getDeviceType(width),
                                      currentBreakpoint)

\* C35: the same agreement on a page whose nav found .nav, .nav-toggle and
\* .nav-menu, so that its constructor reached init() and listens to resize;
\* and the three threshold sets agree on every width
C35_ClassificationsAgreeWhereNavInitialised ==
    /\ ThresholdsAgree
    /\ (Quiescent /\ NavReady) =>
           ClassificationsAgree(isMobile, getDeviceType(width), currentBreakpoint)

\* the page was resized from sm to 768 and both recomputations have run
C35_Witness ==
    /\ Quiescent /\ NavReady
    /\ event = "navTimer"
    /\ width = 768
    /\ previousBreakpoint = "sm" /\ currentBreakpoint = "md"
    /\ ~isMobile
    /\ getDeviceType(width) = "tablet"

============================================================================
